---- MODULE Spec2Model ----
(***************************************************************************)
(* Model of pytest_html/plugin.py: the HTMLReport result aggregator, the   *)
(* attachment renderer / asset store of HTMLReport.TestResult, report      *)
(* saving and the SMTP notifier.                                           *)
(*                                                                         *)
(* Python strings that the code cuts, joins or substitutes (test ids, file *)
(* names) are sequences of one-character strings.  Python objects whose    *)
(* identity matters (TestResult) carry the arrival number n of the event   *)
(* they were built for.                                                    *)
(***************************************************************************)
EXTENDS Integers, Sequences, FiniteSets, TLC

VARIABLES
    has_rerun,        \* config.pluginmanager.hasplugin("rerunfailures")
    self_contained,   \* config.getoption("self_contained_html")
    passed, failed, errors, skipped, xfailed, xpassed, rerun,
    results,          \* HTMLReport.results
    test_logs,        \* HTMLReport.test_logs
    assets_dir,       \* does <report dir>/assets exist
    assets,           \* files in <report dir>/assets: [name, mode]
    report_saved,     \* has the report file been written
    created,          \* every TestResult constructed so far, in arrival order
    report,           \* the event handed to the hook that ran last
    handler,          \* the hook that ran last
    exc,              \* the exception that hook raised ("none" if it returned)
    MailResult,       \* class attributes of MailResult
    session,          \* the session handed to pytest_sessionfinish
    trace,            \* steps of pytest_sessionfinish / SMTP.sender, in order
    extras,           \* pytestconfig.extras: <<>> if absent, else <<the list>>
    item,             \* the test that runs: its number, its fixture, its phase
    appended          \* every attachment appended to the fixture's list so far

counters == <<passed, failed, errors, skipped, xfailed, xpassed, rerun>>
config   == <<has_rerun, self_contained>>
rows     == <<results, test_logs, created>>
disk     == <<assets_dir, assets, report_saved>>
mail     == <<MailResult, session, trace>>
fixture  == <<extras, item, appended>>
vars     == <<config, counters, rows, disk, report, handler, exc, mail, fixture>>

----------------------------------------------------------------------------
(* Bounds of the model *)

MaxReports == 2    \* TestResult objects built in a run, reports of any shape
MaxResults == 3    \* TestResult objects built in a run, one report per outcome
MaxAssets  == 1    \* TestResult objects built in a run, reports with attachments
IdSpread   == 3    \* node ids from 1 below to IdSpread above the longest that fits
MaxTests   == 2    \* tests run with their three phases
MaxAppends == 2    \* attachments a test appends to the fixture's list

----------------------------------------------------------------------------
(* Strings *)

None   == -1       \* self.rerun when the rerun plugin is absent
NoAttr == -1       \* report.rerun when the report has no such attribute

Digits == <<"0", "1", "2", "3", "4", "5", "6", "7", "8", "9">>

RECURSIVE str(_)
str(i) == IF i < 10 THEN <<Digits[i + 1]>>
          ELSE str(i \div 10) \o <<Digits[(i % 10) + 1]>>

\* the characters of the model's alphabet that \w matches
WordChars == {"a", "b", "c", "d", "e", "f", "g", "h", "i", "j", "k", "l", "m",
              "n", "o", "p", "q", "r", "s", "t", "u", "v", "w", "x", "y", "z",
              "_"}
             \cup {Digits[i] : i \in 1..10}

\* re.sub(r"[^\w\.]", "_", s)
sub_non_word(s) ==
    [i \in 1..Len(s) |-> IF s[i] \in WordChars \/ s[i] = "." THEN s[i] ELSE "_"]

\* s[-k:]
Last(s, k) == IF Len(s) <= k THEN s ELSE SubSeq(s, Len(s) - k + 1, Len(s))
\* s[:k]
First(s, k) == IF Len(s) <= k THEN s ELSE SubSeq(s, 1, k)

MaxFileName == 255

\* the file name create_asset computes before it cuts it
asset_full_name(test_id, extra_index, test_index, file_extension) ==
    sub_non_word(test_id) \o <<"_">> \o str(extra_index) \o <<"_">>
        \o str(test_index) \o <<".">> \o file_extension

asset_file_name_first(test_id, extra_index, test_index, file_extension) ==
    First(asset_full_name(test_id, extra_index, test_index, file_extension),
          MaxFileName)

asset_file_name(test_id, extra_index, test_index, file_extension) ==
    Last(asset_full_name(test_id, extra_index, test_index, file_extension),
         MaxFileName)

----------------------------------------------------------------------------
(* Reports delivered by the host runner *)

\* a report.nodeid: "a/b.py::c"
ShortId == <<"a", "/", "b", ".", "p", "y", ":", ":", "c">>

\* a report.nodeid of the given length: "a/b.:a/b.:a/..."
LongId(len) == [i \in 1..len |-> <<"a", "/", "b", ".", ":">>[((i - 1) % 5) + 1]]

\* report.when as a string; "absent" stands for a report without the attribute
when_str(w) ==
    CASE w = "setup"    -> <<"s", "e", "t", "u", "p">>
      [] w = "call"     -> <<"c", "a", "l", "l">>
      [] w = "teardown" -> <<"t", "e", "a", "r", "d", "o", "w", "n">>
      [] w = "collect"  -> <<"c", "o", "l", "l", "e", "c", "t">>
      [] OTHER          -> <<"x">>

\* extra.get("extension") of the attachments of the model
png  == <<"p", "n", "g">>
mp4  == <<"m", "p", "4">>
json == <<"j", "s", "o", "n">>
txt  == <<"t", "x", "t">>

\* Attachment descriptors.  content is the shape of extra["content"]:
\*   "uri"  a string starting with "file" or "http"
\*   "path" the path of an existing file
\*   "b64"  base64 data
\*   "b64_long" base64 data on which os.path.isfile raises ValueError
\*   "data" anything handed to html / json / text / url
Extras ==
    {[format |-> f, content |-> c, extension |-> png] :
        f \in {"image"}, c \in {"uri", "path", "b64", "b64_long"}}
    \cup {[format |-> f, content |-> c, extension |-> mp4] :
        f \in {"video"}, c \in {"uri", "path", "b64", "b64_long"}}
    \cup {[format |-> "json", content |-> "data", extension |-> json],
          [format |-> "text", content |-> "data", extension |-> txt],
          [format |-> "html", content |-> "data", extension |-> txt],
          [format |-> "url",  content |-> "data", extension |-> txt]}

----------------------------------------------------------------------------
(* HTMLReport.TestResult *)

\* test_index = hasattr(report, "rerun") and report.rerun + 1 or 0
test_index_of(r) ==
    IF r.rerun # NoAttr /\ r.rerun + 1 # 0 THEN r.rerun + 1 ELSE 0

\* self.test_id
test_id_of(r) ==
    IF (IF r.when = "absent" THEN "call" ELSE r.when) # "call"
    THEN r.nodeid \o <<":", ":">> \o when_str(r.when)
    ELSE r.nodeid

\* create_asset: the file written (the directory is created on the way)
create_asset(test_id, extra_index, test_index, file_extension, mode) ==
    [name |-> asset_file_name(test_id, extra_index, test_index, file_extension),
     mode |-> mode]

\* content.startswith(("file", "http")) or isfile(content)
probe(content) ==
    CASE content = "uri"      -> "True"
      [] content = "path"     -> "True"
      [] content = "b64_long" -> "ValueError"
      [] OTHER                -> "False"

\* _make_media_html_div testing self-contained mode before the probe
_make_media_html_div_mode_first(extra, extra_index, test_index, test_id) ==
    LET is_uri_or_path == IF probe(extra.content) = "ValueError" THEN FALSE
                          ELSE probe(extra.content) = "True"
    IN  IF self_contained
        THEN [branch |-> "inline", warn |-> FALSE, writes |-> <<>>]
        ELSE IF is_uri_or_path
        THEN [branch |-> "link", warn |-> self_contained, writes |-> <<>>]
        ELSE [branch |-> "asset", warn |-> FALSE,
              writes |-> <<create_asset(test_id, extra_index, test_index,
                                        extra.extension, "wb")>>]

\* _make_media_html_div: the branch taken, the warning, the file stored
_make_media_html_div(extra, extra_index, test_index, test_id) ==
    LET is_uri_or_path == IF probe(extra.content) = "ValueError" THEN FALSE
                          ELSE probe(extra.content) = "True"
    IN  IF is_uri_or_path
        THEN [branch |-> "link", warn |-> self_contained, writes |-> <<>>]
        ELSE IF self_contained
        THEN [branch |-> "inline", warn |-> FALSE, writes |-> <<>>]
        ELSE [branch |-> "asset", warn |-> FALSE,
              writes |-> <<create_asset(test_id, extra_index, test_index,
                                        extra.extension, "wb")>>]

\* append_extra_html storing json and text in self-contained mode too
append_extra_html_always_store(extra, extra_index, test_index, test_id) ==
    IF extra.format \in {"image", "video"}
    THEN _make_media_html_div(extra, extra_index, test_index, test_id)
    ELSE IF extra.format \in {"json", "text"}
    THEN [branch |-> "asset", warn |-> FALSE,
          writes |-> <<create_asset(test_id, extra_index, test_index,
                                    extra.extension, "w")>>]
    ELSE [branch |-> extra.format, warn |-> FALSE, writes |-> <<>>]

\* append_extra_html
append_extra_html(extra, extra_index, test_index, test_id) ==
    IF extra.format \in {"image", "video"}
    THEN _make_media_html_div(extra, extra_index, test_index, test_id)
    ELSE IF extra.format \in {"json", "text"}
    THEN IF self_contained
         THEN [branch |-> "inline", warn |-> FALSE, writes |-> <<>>]
         ELSE [branch |-> "asset", warn |-> FALSE,
               writes |-> <<create_asset(test_id, extra_index, test_index,
                                         extra.extension, "w")>>]
    ELSE [branch |-> extra.format, warn |-> FALSE, writes |-> <<>>]

\* for extra_index, extra in enumerate(report.extra): append_extra_html(...)
RECURSIVE extras_from(_, _)
extras_from(r, k) ==
    IF k > Len(r.extra) THEN <<>>
    ELSE <<append_extra_html(r.extra[k], k - 1, test_index_of(r), test_id_of(r))>>
         \o extras_from(r, k + 1)

RECURSIVE writes_of(_)
writes_of(effects) ==
    IF effects = <<>> THEN <<>>
    ELSE Head(effects).writes \o writes_of(Tail(effects))

\* TestResult.__init__: cells is what the pytest_html_results_table_row hook
\* leaves of the four cells; n tells the objects apart, in arrival order.
\* extras stands for additional_html and links_html: the branch each
\* attachment took, the warning it gave and the relative path its link points
\* to, if stored.  self.test_id feeds the asset names only (test_id_of).
TestResult(outcome, r, cells, n) ==
    [outcome   |-> outcome,
     n         |-> n,
     extras    |-> [k \in 1..Len(r.extra) |->
                        [branch |-> extras_from(r, 1)[k].branch,
                         warn   |-> extras_from(r, 1)[k].warn,
                         href   |-> IF extras_from(r, 1)[k].writes = <<>> THEN <<>>
                                    ELSE <<"a", "s", "s", "e", "t", "s", "/">>
                                         \o extras_from(r, 1)[k].writes[1].name]],
     row_table |-> Len(cells) > 0]

order == <<"Error", "Failed", "Rerun", "XFailed", "XPassed", "Skipped", "Passed">>

\* order.index(outcome), counted from 1
index_of(outcome) == CHOOSE i \in 1..Len(order) : order[i] = outcome

\* TestResult.__lt__
lt(self, other) == index_of(self.outcome) < index_of(other.outcome)

----------------------------------------------------------------------------
(* HTMLReport: the aggregator *)

\* bisect.bisect_left(a, x, lo, hi), indices counted from 0
RECURSIVE bisect_left(_, _, _, _)
bisect_left(a, x, lo, hi) ==
    IF lo < hi
    THEN LET mid == (lo + hi) \div 2
         IN  IF lt(a[mid + 1], x)
             THEN bisect_left(a, x, mid + 1, hi)
             ELSE bisect_left(a, x, lo, mid)
    ELSE lo

\* bisect.bisect_right(a, x, lo, hi), indices counted from 0
RECURSIVE bisect_right(_, _, _, _)
bisect_right(a, x, lo, hi) ==
    IF lo < hi
    THEN LET mid == (lo + hi) \div 2
         IN  IF lt(x, a[mid + 1])
             THEN bisect_right(a, x, lo, mid)
             ELSE bisect_right(a, x, mid + 1, hi)
    ELSE lo

\* list.insert(index, x), index counted from 0
insert(a, index, x) ==
    SubSeq(a, 1, index) \o <<x>> \o SubSeq(a, index + 1, Len(a))

\* result.outcome.lower()
lower(outcome) ==
    CASE outcome = "Error"   -> "error"
      [] outcome = "Failed"  -> "failed"
      [] outcome = "Rerun"   -> "rerun"
      [] outcome = "XFailed" -> "xfailed"
      [] outcome = "XPassed" -> "xpassed"
      [] outcome = "Skipped" -> "skipped"
      [] outcome = "Passed"  -> "passed"

\* open(asset_path, mode): a file of the same name is overwritten
RECURSIVE write_files(_, _)
write_files(files, writes) ==
    IF writes = <<>> THEN files
    ELSE write_files({f \in files : f.name # Head(writes).name} \cup {Head(writes)},
                     Tail(writes))

\* self.<counter> += 1
increment(counter) ==
    /\ passed'  = IF counter = "passed"  THEN passed + 1  ELSE passed
    /\ failed'  = IF counter = "failed"  THEN failed + 1  ELSE failed
    /\ errors'  = IF counter = "errors"  THEN errors + 1  ELSE errors
    /\ skipped' = IF counter = "skipped" THEN skipped + 1 ELSE skipped
    /\ xfailed' = IF counter = "xfailed" THEN xfailed + 1 ELSE xfailed
    /\ xpassed' = IF counter = "xpassed" THEN xpassed + 1 ELSE xpassed
    /\ rerun'   = IF counter = "rerun"   THEN rerun + 1   ELSE rerun

\* the position bisect_left gives
row_index_left(result) == bisect_left(results, result, 0, Len(results))

\* the position _appendrow inserts at
row_index(result) == bisect_right(results, result, 0, Len(results))

\* _appendrow
_appendrow(outcome, r, cells) ==
    LET result == TestResult(outcome, r, cells, Len(created) + 1)
        writes == writes_of(extras_from(r, 1))
        index  == row_index(result)
        tbody  == [class |-> lower(result.outcome), n |-> result.n]
    IN  /\ created' = Append(created, result)
        /\ assets' = write_files(assets, writes)
        /\ assets_dir' = (assets_dir \/ writes # <<>>)
        /\ UNCHANGED report_saved
        /\ IF result.row_table
           THEN /\ results' = insert(results, index, result)
                /\ test_logs' = insert(test_logs, index, tbody)
           ELSE UNCHANGED <<results, test_logs>>

\* append_passed without the test of the phase
append_passed_any_phase(r, cells) ==
    /\ exc' = "none"
    /\ IF r.wasxfail
       THEN increment("xpassed") /\ _appendrow("XPassed", r, cells)
       ELSE increment("passed") /\ _appendrow("Passed", r, cells)

\* append_passed counting an unexpected pass as a pass
append_passed_wrong_counter(r, cells) ==
    /\ exc' = "none"
    /\ IF r.when = "call"
       THEN IF r.wasxfail
            THEN increment("passed") /\ _appendrow("XPassed", r, cells)
            ELSE increment("passed") /\ _appendrow("Passed", r, cells)
       ELSE UNCHANGED <<counters, rows, disk>>

\* append_passed
append_passed(r, cells) ==
    /\ exc' = "none"
    /\ IF r.when = "call"
       THEN IF r.wasxfail
            THEN increment("xpassed") /\ _appendrow("XPassed", r, cells)
            ELSE increment("passed") /\ _appendrow("Passed", r, cells)
       ELSE UNCHANGED <<counters, rows, disk>>

\* append_failed without the wasxfail test
append_failed_xfail_ignored(r, cells) ==
    /\ exc' = "none"
    /\ IF r.when = "call"
       THEN increment("failed") /\ _appendrow("Failed", r, cells)
       ELSE increment("errors") /\ _appendrow("Error", r, cells)

\* append_failed testing wasxfail before the phase
append_failed_xfail_first(r, cells) ==
    /\ exc' = "none"
    /\ IF r.wasxfail
       THEN increment("xpassed") /\ _appendrow("XPassed", r, cells)
       ELSE IF r.when = "call"
            THEN increment("failed") /\ _appendrow("Failed", r, cells)
            ELSE increment("errors") /\ _appendrow("Error", r, cells)

\* append_failed
append_failed(r, cells) ==
    /\ exc' = "none"
    /\ IF r.when = "call"
       THEN IF r.wasxfail
            THEN increment("xpassed") /\ _appendrow("XPassed", r, cells)
            ELSE increment("failed") /\ _appendrow("Failed", r, cells)
       ELSE increment("errors") /\ _appendrow("Error", r, cells)

\* append_skipped
append_skipped(r, cells) ==
    /\ exc' = "none"
    /\ IF r.wasxfail
       THEN increment("xfailed") /\ _appendrow("XFailed", r, cells)
       ELSE increment("skipped") /\ _appendrow("Skipped", r, cells)

\* append_other folding the report into Error
append_other_as_error(r, cells) ==
    /\ exc' = "none"
    /\ increment("errors")
    /\ _appendrow("Error", r, cells)

\* append_other: None += 1 raises TypeError before anything is changed
append_other(r, cells) ==
    IF rerun = None
    THEN /\ exc' = "TypeError"
         /\ UNCHANGED <<counters, rows, disk>>
    ELSE /\ exc' = "none"
         /\ increment("rerun")
         /\ _appendrow("Rerun", r, cells)

\* what the pytest_html_results_table_row hook may leave of the row's cells
Cells == {<<>>, <<"col-name", "col-duration", "col-result", "col-links">>}

NoReport == [nodeid |-> <<>>, outcome |-> "none", when |-> "absent",
             wasxfail |-> FALSE, rerun |-> NoAttr, extra |-> <<>>]

NoSession == [is_email |-> FALSE, to |-> "None", subject |-> "None",
              contents |-> "None", failure |-> "none", company |-> FALSE]

Running == trace = <<>>

\* HTMLReport.pytest_runtest_logreport
pytest_runtest_logreport(r, cells) ==
    /\ Running
    /\ handler' = "pytest_runtest_logreport"
    /\ report' = r
    /\ IF r.outcome = "passed" THEN append_passed(r, cells)
       ELSE IF r.outcome = "failed" THEN append_failed(r, cells)
       ELSE IF r.outcome = "skipped" THEN append_skipped(r, cells)
       ELSE append_other(r, cells)
    /\ UNCHANGED <<config, mail, fixture>>

\* HTMLReport.pytest_collectreport
pytest_collectreport(r, cells) ==
    /\ Running
    /\ handler' = "pytest_collectreport"
    /\ report' = r
    /\ IF r.outcome = "failed"
       THEN append_failed(r, cells)
       ELSE exc' = "none" /\ UNCHANGED <<counters, rows, disk>>
    /\ UNCHANGED <<config, mail, fixture>>

----------------------------------------------------------------------------
(* Report generation and saving *)

style_css == <<"s", "t", "y", "l", "e", ".", "c", "s", "s">>

\* _generate_report counting every outcome in the total
_generate_report_all ==
    LET numtests == passed + failed + xpassed + xfailed + errors + skipped
    IN  [MailResult EXCEPT !.title = "title", !.count = numtests,
                           !.passed = passed, !.failed = failed,
                           !.xfailed = xfailed, !.xpassed = xpassed,
                           !.errors = errors, !.skipped = skipped]

\* _generate_report: the MailResult attributes it assigns
\* (MailResult.rerun is never assigned)
_generate_report ==
    LET numtests == passed + failed + xpassed + xfailed
    IN  [MailResult EXCEPT !.title = "title", !.count = numtests,
                           !.passed = passed, !.failed = failed,
                           !.xfailed = xfailed, !.xpassed = xpassed,
                           !.errors = errors, !.skipped = skipped]

\* _save_report
_save_report ==
    /\ report_saved' = TRUE
    /\ assets_dir' = (assets_dir \/ ~self_contained)
    /\ assets' = IF ~self_contained
                 THEN write_files(assets, <<[name |-> style_css, mode |-> "w"]>>)
                 ELSE assets

----------------------------------------------------------------------------
(* SMTP *)

\* output_email with the zero count guarded
output_email_guarded(mr) == "none"

\* output_email: MailResult.passed / MailResult.count * 100
output_email(mr) == IF mr.count = 0 THEN "ZeroDivisionError" ELSE "none"

\* the try / except BaseException / finally of sender; failure is the step of
\* the transport that raises
transport(failure) ==
    CASE failure = "connect" ->
            \* smtp was never bound: smtp.quit() in the finally clause raises
            [trace |-> <<"SMTP_SSL", "print_failed">>, exc |-> "UnboundLocalError"]
      [] failure = "login" ->
            [trace |-> <<"SMTP_SSL", "login", "print_failed", "quit">>,
             exc |-> "none"]
      [] failure = "sendmail" ->
            [trace |-> <<"SMTP_SSL", "login", "sendmail", "print_failed", "quit">>,
             exc |-> "none"]
      [] OTHER ->
            [trace |-> <<"SMTP_SSL", "login", "sendmail", "print_sent", "quit">>,
             exc |-> "none"]

\* sender from the defaults on (lines 727-771)
sender_body(s, mr) ==
    LET subject == IF s.subject = "None" THEN <<"default_subject">> ELSE <<>>
        body    == IF s.contents = "None" THEN <<"output_email">> ELSE <<>>
    IN  IF s.contents = "None" /\ output_email(mr) # "none"
        THEN [trace |-> subject \o body, exc |-> output_email(mr)]
        ELSE LET sent == transport(s.failure)
             IN  [trace |-> subject \o body \o <<"open_attachment">> \o sent.trace,
                  exc |-> sent.exc]

\* sender with the recipient checked after the defaults are computed
sender_late_check(s, mr) ==
    IF s.to = "None"
    THEN LET subject == IF s.subject = "None" THEN <<"default_subject">> ELSE <<>>
             body    == IF s.contents = "None" THEN <<"output_email">> ELSE <<>>
         IN  [trace |-> <<"sender">> \o subject \o body, exc |-> "ValueError"]
    ELSE [trace |-> <<"sender">> \o sender_body(s, mr).trace,
          exc |-> sender_body(s, mr).exc]

\* SMTP.sender(**session.send_cfg, attachments=self.report_file)
sender(s, mr) ==
    IF s.to = "None"
    THEN [trace |-> <<"sender">>, exc |-> "ValueError"]
    ELSE [trace |-> <<"sender">> \o sender_body(s, mr).trace,
          exc |-> sender_body(s, mr).exc]

\* pytest_sessionfinish handing the report to the sender before it is saved
pytest_sessionfinish_send_first(s) ==
    /\ Running
    /\ handler' = "pytest_sessionfinish"
    /\ session' = s
    /\ report' = NoReport
    /\ UNCHANGED <<config, counters, rows, fixture>>
    /\ IF ~s.company
       THEN /\ trace' = <<"_generate_report">>
            /\ exc' = "AttributeError"
            /\ UNCHANGED <<MailResult, disk>>
       ELSE /\ MailResult' = _generate_report
            /\ IF s.is_email
               THEN LET out == sender(s, MailResult')
                    IN  IF out.exc = "none"
                        THEN /\ _save_report
                             /\ trace' = <<"_generate_report">> \o out.trace
                                             \o <<"_save_report">>
                             /\ exc' = "none"
                        ELSE /\ UNCHANGED disk
                             /\ trace' = <<"_generate_report">> \o out.trace
                             /\ exc' = out.exc
               ELSE /\ _save_report
                    /\ trace' = <<"_generate_report", "_save_report">>
                    /\ exc' = "none"

\* HTMLReport.pytest_sessionfinish.  _generate_report reads self.company, which
\* only a pytest_html_report_title hook sets: without it AttributeError is
\* raised before MailResult is assigned.
pytest_sessionfinish(s) ==
    /\ Running
    /\ handler' = "pytest_sessionfinish"
    /\ session' = s
    /\ report' = NoReport
    /\ UNCHANGED <<config, counters, rows, fixture>>
    /\ IF ~s.company
       THEN /\ trace' = <<"_generate_report">>
            /\ exc' = "AttributeError"
            /\ UNCHANGED <<MailResult, disk>>
       ELSE /\ MailResult' = _generate_report
            /\ _save_report
            /\ IF s.is_email
               THEN LET out == sender(s, MailResult')
                    IN  /\ trace' = <<"_generate_report", "_save_report">>
                                        \o out.trace
                        /\ exc' = out.exc
               ELSE /\ trace' = <<"_generate_report", "_save_report">>
                    /\ exc' = "none"

----------------------------------------------------------------------------
(* The extra fixture and pytest_runtest_makereport *)

\* no test has started
NoItem == [n |-> 0, uses |-> FALSE, active |-> FALSE, at |-> "idle"]

\* an attachment with its name: a test names its attachments by its number,
\* a plugin names its attachment 0
named(e, name) ==
    [format |-> e.format, content |-> e.content, extension |-> e.extension,
     name |-> name]

\* what the n-th test appends to the list the fixture yields
FixtureExtras(n) ==
    {named(e, n) : e \in {x \in Extras : x.format \in {"url", "text"}}}

\* report.extra as other plugins left it: absent, or one attachment
PluginExtras ==
    {<<>>} \cup {<<named(e, 0)>> : e \in {x \in Extras : x.format = "html"}}

\* pytestconfig has no attribute extras
NoExtras == <<>>

\* the fixture up to its yield: pytestconfig.extras = []
extra_setup == extras' = <<<<>>>>

\* the fixture after its yield, clearing nothing
extra_teardown_keep == extras' = extras

\* the fixture after its yield: del pytestconfig.extras[:]
extra_teardown == extras' = <<<<>>>>

\* getattr(item.config, "extras", [])
getattr(attr) == IF attr = NoExtras THEN <<>> ELSE attr[1]

\* the setup phase of the next test starts; its fixtures are set up
runtest_setup(uses) ==
    /\ Running
    /\ item.at = "idle"
    /\ handler' = "extra"
    /\ item' = [n |-> item.n + 1, uses |-> uses, active |-> uses, at |-> "setup"]
    /\ IF uses THEN extra_setup ELSE UNCHANGED extras
    /\ exc' = "none"
    /\ UNCHANGED <<config, counters, rows, disk, mail, report, appended>>

\* the test, or a fixture that requested extra, appends to the yielded list
append(e) ==
    /\ Running
    /\ item.active
    /\ handler' = "extra"
    /\ extras' = <<Append(extras[1], e)>>
    /\ appended' = Append(appended, e)
    /\ exc' = "none"
    /\ UNCHANGED <<config, counters, rows, disk, mail, report, item>>

\* the phase ends and its report is made
pytest_runtest_makereport(when, outcome, plugin_extras) ==
    /\ Running
    /\ item.at = when
    /\ when = "teardown" => ~item.active
    /\ handler' = "pytest_runtest_makereport"
    /\ LET fixture_extras == getattr(extras)
       IN  report' = [nodeid |-> ShortId, outcome |-> outcome, when |-> when,
                      wasxfail |-> FALSE, rerun |-> NoAttr,
                      extra |-> IF when = "call"
                                THEN fixture_extras \o plugin_extras
                                ELSE plugin_extras]
    /\ item' = [item EXCEPT !.at =
                    CASE when = "setup" /\ outcome = "passed" -> "call"
                      [] when = "teardown" -> "idle"
                      [] OTHER -> "teardown"]
    /\ exc' = "none"
    /\ UNCHANGED <<config, counters, rows, disk, mail, extras, appended>>

\* the fixture is torn down in the teardown phase
runtest_teardown ==
    /\ Running
    /\ item.at = "teardown"
    /\ item.active
    /\ handler' = "extra"
    /\ extra_teardown
    /\ item' = [item EXCEPT !.active = FALSE]
    /\ exc' = "none"
    /\ UNCHANGED <<config, counters, rows, disk, mail, report, appended>>

----------------------------------------------------------------------------
(* The runs *)

Init ==
    /\ has_rerun \in BOOLEAN
    /\ self_contained \in BOOLEAN
    /\ passed = 0 /\ failed = 0 /\ errors = 0 /\ skipped = 0
    /\ xfailed = 0 /\ xpassed = 0
    /\ rerun = IF has_rerun THEN 0 ELSE None
    /\ results = <<>>
    /\ test_logs = <<>>
    /\ created = <<>>
    /\ assets_dir = FALSE      \* the report goes to a fresh directory
    /\ assets = {}
    /\ report_saved = FALSE
    /\ report = NoReport
    /\ handler = "none"
    /\ exc = "none"
    /\ MailResult = [title |-> "", count |-> 0, passed |-> 0, xpassed |-> 0,
                     failed |-> 0, xfailed |-> 0, errors |-> 0, skipped |-> 0,
                     rerun |-> 0]
    /\ session = NoSession
    /\ trace = <<>>
    /\ extras = NoExtras
    /\ item = NoItem
    /\ appended = <<>>

\* the sessions of the model: conftest.py sets is_email, email_cfg, send_cfg
Sessions ==
    [is_email : BOOLEAN, to : {"None", "str"}, subject : {"None", "str"},
     contents : {"None", "str"},
     failure : {"none", "connect", "login", "sendmail"}, company : BOOLEAN]

\* sessions that send no mail
QuietSessions == {s \in Sessions : ~s.is_email /\ s.to = "str" /\ s.subject = "None"
                                   /\ s.contents = "None" /\ s.failure = "none"}

\* reports of test phases, without attachments
Reports ==
    [nodeid : {ShortId}, outcome : {"passed", "failed", "skipped", "rerun"},
     when : {"setup", "call", "teardown", "other"}, wasxfail : BOOLEAN,
     rerun : {NoAttr}, extra : {<<>>}]

\* reports of collectors
CollectReports ==
    [nodeid : {ShortId}, outcome : {"passed", "failed", "skipped"},
     when : {"absent", "collect"}, wasxfail : BOOLEAN,
     rerun : {NoAttr}, extra : {<<>>}]

\* The aggregator: every shape of report, any hook, no attachments, no mail
Next ==
    \/ /\ Len(created) < MaxReports
       /\ \E r \in Reports, cells \in Cells : pytest_runtest_logreport(r, cells)
    \/ /\ Len(created) < MaxReports
       /\ \E r \in CollectReports, cells \in Cells : pytest_collectreport(r, cells)
    \/ \E s \in QuietSessions : pytest_sessionfinish(s)

Spec == Init /\ [][Next]_vars

\* one report for each outcome kind
KindReports ==
    {r \in Reports :
        \/ r.when = "call"
        \/ r.when = "setup" /\ r.outcome = "failed" /\ ~r.wasxfail}

\* The record order: one report per outcome kind, any hook, longer runs
NextOrder ==
    \/ /\ Len(created) < MaxResults
       /\ \E r \in KindReports, cells \in Cells : pytest_runtest_logreport(r, cells)
    \/ /\ Len(created) < MaxResults
       /\ \E r \in {c \in CollectReports : c.when = "collect" /\ ~c.wasxfail},
             cells \in Cells : pytest_collectreport(r, cells)
    \/ \E s \in QuietSessions : pytest_sessionfinish(s)

\* runs without --self-contained-html
InitAssetsDir == Init /\ ~self_contained

SpecOrder == InitAssetsDir /\ [][NextOrder]_vars

\* the hook leaves the cells alone
FourCells == CHOOSE c \in Cells : c # <<>>

\* The notifier: call-phase reports, then every session
NextMail ==
    \/ /\ Len(created) < MaxResults
       /\ \E r \in {c \in Reports : c.when = "call" /\ ~c.wasxfail} :
             pytest_runtest_logreport(r, FourCells)
    \/ /\ Len(created) < MaxResults
       /\ \E r \in {c \in CollectReports : c.when = "collect" /\ ~c.wasxfail} :
             pytest_collectreport(r, FourCells)
    \/ \E s \in Sessions : pytest_sessionfinish(s)

SpecMail == Init /\ [][NextMail]_vars

\* lists of attachments: none, one of each kind, and two pairs
ExtraLists ==
    {<<>>} \cup {<<e>> : e \in Extras}
    \cup {<<a, b>> : a \in {e \in Extras : e.format = "text"},
                     b \in {e \in Extras : e.format \in {"json", "image"}
                                           /\ e.content \in {"data", "b64"}}}

\* reports with attachments
AssetReports ==
    {r \in [nodeid : {ShortId}, outcome : {"passed", "failed"},
            when : {"setup", "call", "teardown"}, wasxfail : {FALSE},
            rerun : {NoAttr}, extra : ExtraLists] :
        r.outcome = "failed" => r.when = "setup"}

\* Attachments: reports with attachments, then the report is saved
NextAssets ==
    \/ /\ Len(created) < MaxAssets
       /\ \E r \in AssetReports : pytest_runtest_logreport(r, FourCells)
    \/ /\ Len(created) < MaxAssets
       /\ \E r \in {c \in AssetReports : c.outcome = "failed"} :
             pytest_collectreport([r EXCEPT !.when = "collect"], FourCells)
    \/ \E s \in QuietSessions : pytest_sessionfinish(s)

SpecAssets == Init /\ [][NextAssets]_vars

\* node ids around the longest whose asset name "<id>_<i>_<j>.txt" fits
LongIds == {LongId(len) : len \in (MaxFileName - 9)..(MaxFileName - 8 + IdSpread)}

\* reports with one stored attachment and a long node id
LongReports ==
    [nodeid : LongIds \cup {ShortId}, outcome : {"failed"}, when : {"setup", "call"},
     wasxfail : {FALSE}, rerun : {NoAttr, 0},
     extra : {<<e>> : e \in {x \in Extras : x.format = "text"
                                \/ (x.format = "image" /\ x.content = "b64")}}]

\* Asset names: one report with a long node id and one stored attachment
NextNames ==
    \/ /\ created = <<>>
       /\ \E r \in LongReports : pytest_runtest_logreport(r, FourCells)
    \/ /\ created = <<>>
       /\ \E r \in {c \in LongReports : c.when = "setup"} :
             pytest_collectreport([r EXCEPT !.when = "collect"], FourCells)
    \/ \E s \in QuietSessions : pytest_sessionfinish(s)

SpecNames == InitAssetsDir /\ [][NextNames]_vars

\* The fixture: tests with setup, call and teardown, with and without extra
NextExtras ==
    \/ /\ item.n < MaxTests
       /\ \E uses \in BOOLEAN : runtest_setup(uses)
    \/ /\ Len(SelectSeq(appended, LAMBDA e : e.name = item.n)) < MaxAppends
       /\ \E e \in FixtureExtras(item.n) : append(e)
    \/ \E when \in {"setup", "call", "teardown"}, outcome \in {"passed", "failed"},
          plugin_extras \in PluginExtras :
          pytest_runtest_makereport(when, outcome, plugin_extras)
    \/ runtest_teardown

SpecExtras == Init /\ [][NextExtras]_vars

----------------------------------------------------------------------------
(* Properties *)

Ingestion == {"pytest_runtest_logreport", "pytest_collectreport"}

\* the step built a TestResult of this outcome, and put it among the results
\* unless the hook emptied its cells
Produced(outcome) ==
    /\ Len(created') = Len(created) + 1
    /\ created'[Len(created')].outcome = outcome
    /\ IF created'[Len(created')].row_table
       THEN /\ Len(results') = Len(results) + 1
            /\ \E i \in 1..Len(results') : results'[i] = created'[Len(created')]
       ELSE results' = results

\* the records of a sequence that have this outcome, in their order
OfKind(seq, outcome) == SelectSeq(seq, LAMBDA x : x.outcome = outcome)

\* the rows that were not removed by the hook, in arrival order
Arrived == SelectSeq(created, LAMBDA x : x.row_table)

RECURSIVE StableSortFrom(_, _)
StableSortFrom(seq, i) ==
    IF i > Len(order) THEN <<>>
    ELSE OfKind(seq, order[i]) \o StableSortFrom(seq, i + 1)

\* C1: after any sequence of ingestion calls, results is the stable sort of
\* the records put into it so far by outcome rank Error < Failed < Rerun <
\* XFailed < XPassed < Skipped < Passed: ranks never decrease along the list
\* and records of one outcome keep their arrival order.
C1_StableSort ==
    /\ results = StableSortFrom(Arrived, 1)
    /\ \A i, j \in 1..Len(results) :
          i < j => /\ index_of(results[i].outcome) <= index_of(results[j].outcome)
                   /\ results[i].outcome = results[j].outcome
                          => results[i].n < results[j].n

\* three records, two of one outcome, a later arrival ahead of an earlier one
C1_Witness ==
    /\ Len(results) = 3
    /\ \E i, j \in 1..3 : i < j /\ results[i].outcome = results[j].outcome
    /\ \E i, j \in 1..3 : i < j /\ results[i].n > results[j].n

\* C2: a report carrying wasxfail, if passed or failed in the call phase, gives
\* an XPassed record and increments xpassed alone; if skipped, in any phase,
\* gives an XFailed record and increments xfailed alone.
C2_ExpectedFailure ==
    [][(handler' = "pytest_runtest_logreport" /\ report'.wasxfail) =>
         /\ (report'.outcome \in {"passed", "failed"} /\ report'.when = "call") =>
               /\ Produced("XPassed")
               /\ xpassed' = xpassed + 1
               /\ UNCHANGED <<passed, failed, errors, skipped, xfailed, rerun>>
         /\ report'.outcome = "skipped" =>
               /\ Produced("XFailed")
               /\ xfailed' = xfailed + 1
               /\ UNCHANGED <<passed, failed, errors, skipped, xpassed, rerun>>
      ]_vars

\* a failed call-phase report and then a skipped setup report, both flagged
C2_Witness ==
    /\ handler = "pytest_runtest_logreport"
    /\ report.wasxfail /\ report.outcome = "skipped" /\ report.when = "setup"
    /\ Len(created) = 2
    /\ created[1].outcome = "XPassed" /\ created[2].outcome = "XFailed"
    /\ xpassed = 1 /\ xfailed = 1 /\ failed = 0 /\ skipped = 0

\* C3: a failed report whose phase is not "call" (setup, teardown, or a
\* collection report without a phase), flagged or not, gives an Error record,
\* increments errors by one and leaves failed (and every other counter) alone.
C3_FailedOutsideCall ==
    [][(handler' \in Ingestion /\ report'.outcome = "failed"
            /\ report'.when # "call") =>
         /\ Produced("Error")
         /\ errors' = errors + 1
         /\ UNCHANGED <<passed, failed, skipped, xfailed, xpassed, rerun>>
      ]_vars

\* a flagged failed teardown report, then a failed collection report
\* without a phase
C3_Witness ==
    /\ handler = "pytest_collectreport"
    /\ report.outcome = "failed" /\ report.when = "absent"
    /\ Len(created) = 2
    /\ created[1].outcome = "Error" /\ created[2].outcome = "Error"
    /\ errors = 2 /\ failed = 0 /\ xpassed = 0

Recognized == {"passed", "failed", "skipped"}
Phases     == {"setup", "call", "teardown"}

\* C4 as claimed: pytest_runtest_logreport raises for no report, and a report
\* whose outcome or phase is not recognized is classified as Error.
C4_NeverRaises ==
    [][handler' = "pytest_runtest_logreport" =>
         /\ exc' = "none"
         /\ (report'.outcome \notin Recognized \/ report'.when \notin Phases)
               => Produced("Error")
      ]_vars

\* C4 amended: pytest_runtest_logreport raises for no passed, failed or skipped
\* report, whatever the phase and the plugins.  A report of none of the three
\* outcomes is classified as Rerun when the rerun plugin is present, and
\* raises TypeError, changing nothing, when it is absent.  Of the reports with
\* an unrecognized phase, a failed one is classified as Error, a skipped one as
\* Skipped or XFailed, and a passed one is dropped.
C4_RaisesOnlyWithoutRerun ==
    [][handler' = "pytest_runtest_logreport" =>
         /\ exc' \in {"none", "TypeError"}
         /\ exc' = "none" <=> (report'.outcome \in Recognized \/ has_rerun)
         /\ exc' # "none" => UNCHANGED <<counters, rows, disk>>
         /\ (report'.outcome \notin Recognized /\ has_rerun) =>
               /\ Produced("Rerun")
               /\ rerun' = rerun + 1
         /\ report'.when \notin Phases =>
               /\ report'.outcome = "failed" => Produced("Error")
               /\ report'.outcome = "skipped" =>
                     Produced(IF report'.wasxfail THEN "XFailed" ELSE "Skipped")
               /\ report'.outcome = "passed" => UNCHANGED <<counters, rows, disk>>
      ]_vars

\* with the plugin, a rerun report in an unrecognized phase became a Rerun record
C4_Witness ==
    /\ handler = "pytest_runtest_logreport"
    /\ has_rerun
    /\ report.outcome = "rerun" /\ report.when = "other"
    /\ exc = "none"
    /\ rerun = 1
    /\ Len(created) = 2 /\ created[2].outcome = "Rerun"

Count(seq, outcome) == Len(OfKind(seq, outcome))

\* the counter of an outcome kind
counter_of(outcome) ==
    CASE outcome = "Error"   -> errors
      [] outcome = "Failed"  -> failed
      [] outcome = "Rerun"   -> IF rerun = None THEN 0 ELSE rerun
      [] outcome = "XFailed" -> xfailed
      [] outcome = "XPassed" -> xpassed
      [] outcome = "Skipped" -> skipped
      [] outcome = "Passed"  -> passed

Outcomes == {order[i] : i \in 1..Len(order)}

Total == passed + failed + errors + skipped + xfailed + xpassed
         + (IF rerun = None THEN 0 ELSE rerun)

\* C5 as claimed: whatever the hook does to the cells, every counter equals
\* the number of records of its outcome kind in results.
C5_CountersMatchResults ==
    \A o \in Outcomes : counter_of(o) = Count(results, o)

\* C5 amended: every counter equals the number of records of its kind in
\* results plus the number of reports of that kind whose cells the
\* pytest_html_results_table_row hook emptied (they are counted but get no
\* record); a report that is classified increments one counter by one and
\* creates one record if the hook leaves a cell, none otherwise; a report that
\* is not classified (passed outside "call", a collection report that did not
\* fail, a rerun report without the plugin) changes no counter and no record.
C5_CountersMatchCreated ==
    /\ \A o \in Outcomes :
          /\ counter_of(o) = Count(results, o)
                             + Count(SelectSeq(created, LAMBDA x : ~x.row_table), o)
          /\ Count(results, o) = Count(Arrived, o)
    /\ Total = Len(created)
    /\ Len(results) = Len(Arrived)

\* two passed reports, the row of one of them emptied by the hook
C5_Witness ==
    /\ passed = 2
    /\ Count(results, "Passed") = 1
    /\ Len(created) = 2

InTrace(step) == \E i \in 1..Len(trace) : trace[i] = step

\* pytest_sessionfinish called sender with a recipient, and sender reached
\* the transport
Transport ==
    /\ handler = "pytest_sessionfinish"
    /\ session.is_email /\ session.to # "None"
    /\ InTrace("SMTP_SSL")

\* C6: in sender with a recipient, a failure of any step of the transport
\* (opening the SMTP_SSL connection, login, sendmail) is caught and printed and
\* no exception leaves sender, so pytest_sessionfinish completes.
C6_TransportFailureCaught ==
    Transport =>
        /\ exc = "none"
        /\ session.failure # "none" => InTrace("print_failed")

\* C7: sender called with to=None raises ValueError before any other step: no
\* default subject or body is computed, no attachment is opened, no
\* connection is attempted.
C7_NoRecipient ==
    (handler = "pytest_sessionfinish" /\ InTrace("sender") /\ session.to = "None") =>
        /\ exc = "ValueError"
        /\ trace[Len(trace)] = "sender"
        /\ \A step \in {"default_subject", "output_email", "open_attachment",
                        "SMTP_SSL", "login", "sendmail", "quit"} : ~InTrace(step)

\* no recipient, no subject, no body, and a count of 0 that output_email
\* would have divided by
C7_Witness ==
    /\ handler = "pytest_sessionfinish"
    /\ InTrace("sender")
    /\ session.to = "None" /\ session.subject = "None" /\ session.contents = "None"
    /\ MailResult.count = 0
    /\ exc = "ValueError"

\* in self-contained mode no asset directory and no file but the report
Disk_SelfContained == ~assets_dir /\ assets = {}

\* C8: in self-contained mode no reports with attachments of any kind, saved
\* or not, create the assets directory or write a file other than the report;
\* in the other mode the assets directory exists once the report is saved.
C8_AssetsDirectory ==
    /\ self_contained => Disk_SelfContained
    /\ (~self_contained /\ report_saved) => assets_dir

\* a self-contained report saved after a report with two inlined attachments
C8_Witness ==
    /\ self_contained /\ report_saved
    /\ \E i \in 1..Len(created) :
          /\ Len(created[i].extras) = 2
          /\ \A k \in 1..2 : created[i].extras[k].branch = "inline"

\* C9: the pass rate is passed / count * 100 without a guard: with a total
\* count of 0 and the default body, output_email raises ZeroDivisionError
\* before any connection is attempted and outside the try of the transport,
\* so it leaves sender and pytest_sessionfinish.
C9_ZeroCount ==
    (/\ handler = "pytest_sessionfinish"
     /\ InTrace("sender")
     /\ session.to # "None" /\ session.contents = "None"
     /\ MailResult.count = 0) =>
        /\ exc = "ZeroDivisionError"
        /\ trace[Len(trace)] = "output_email"
        /\ \A step \in {"open_attachment", "SMTP_SSL", "print_failed", "quit"} :
              ~InTrace(step)

\* the division failed in a run whose records are all Error or Skipped
C9_Witness ==
    /\ handler = "pytest_sessionfinish"
    /\ session.to # "None" /\ session.contents = "None"
    /\ session.failure = "connect"
    /\ Len(results) = 2
    /\ MailResult.count = 0 /\ MailResult.errors = 1 /\ MailResult.skipped = 1
    /\ exc = "ZeroDivisionError"

IsPrefix(a, b) == Len(a) <= Len(b) /\ SubSeq(b, 1, Len(a)) = a
IsSuffix(a, b) == Len(a) <= Len(b) /\ SubSeq(b, Len(b) - Len(a) + 1, Len(b)) = a
Min(a, b) == IF a <= b THEN a ELSE b

\* the attachments the report of this step stored through create_asset
StoredNow ==
    IF Len(created') = Len(created) THEN {}
    ELSE {k \in 1..Len(report'.extra) :
             created'[Len(created')].extras[k].branch = "asset"}

\* the name under assets/ the k-th attachment of this step was stored as
StoredName(k) ==
    LET href == created'[Len(created')].extras[k].href
    IN  SubSeq(href, Len(<<"a", "s", "s", "e", "t", "s", "/">>) + 1, Len(href))

\* "<sanitized test id>_<extra index>_<rerun index>.<extension>" of the k-th
\* attachment of this step
FullName(k) ==
    asset_full_name(test_id_of(report'), k - 1, test_index_of(report'),
                    report'.extra[k].extension)

\* C10 as claimed: the name is at most 255 characters long and is the first
\* 255 characters of the untruncated name.
C10_KeepsFirst255 ==
    [][\A k \in StoredNow :
          /\ Len(StoredName(k)) = Min(Len(FullName(k)), MaxFileName)
          /\ IsPrefix(StoredName(k), FullName(k))
          /\ \E f \in assets' : f.name = StoredName(k)
      ]_vars

\* C10 amended: the name is at most 255 characters long, and when the
\* untruncated name is longer it is cut at the front: the stored name is the
\* last 255 characters, so the "_<extra index>_<rerun index>.<extension>"
\* suffix is kept and the beginning of the test identifier is lost.
C10_KeepsLast255 ==
    [][\A k \in StoredNow :
          /\ Len(StoredName(k)) = Min(Len(FullName(k)), MaxFileName)
          /\ IsSuffix(StoredName(k), FullName(k))
          /\ IsSuffix(<<"_">> \o str(k - 1) \o <<"_">> \o str(test_index_of(report'))
                          \o <<".">> \o report'.extra[k].extension,
                      StoredName(k))
          /\ \E f \in assets' : f.name = StoredName(k)
      ]_vars

\* an asset of a rerun report stored under a name of 255 characters that does
\* not start like the test identifier
C10_Witness ==
    /\ handler \in Ingestion
    /\ report.rerun = 0
    /\ created # <<>>
    /\ Len(asset_full_name(test_id_of(report), 0, test_index_of(report), txt))
          > MaxFileName + 1
    /\ \E f \in assets :
          /\ Len(f.name) = MaxFileName
          /\ IsSuffix(f.name, asset_full_name(test_id_of(report), 0,
                                              test_index_of(report), txt))
          /\ f.name[1] # sub_non_word(test_id_of(report))[1]

\* the image and video attachments of the report of this step
MediaNow ==
    IF Len(created') = Len(created) THEN {}
    ELSE {k \in 1..Len(report'.extra) : report'.extra[k].format \in {"image", "video"}}

\* C11: an image or video attachment takes exactly one of three branches, in
\* this order: (1) content that is a URI or an existing path is linked to and
\* nothing is stored (with a warning in self-contained mode); (2) otherwise, in
\* self-contained mode, the content is inlined and nothing is stored; (3)
\* otherwise it is stored once, in binary mode, through create_asset.  A probe
\* that raises counts as "not a path" and the hook does not raise.
C11_MediaBranches ==
    [][/\ \A k \in MediaNow :
             LET e == created'[Len(created')].extras[k]
                 c == report'.extra[k].content
             IN  /\ c \in {"uri", "path"} =>
                       /\ e.branch = "link" /\ e.href = <<>>
                       /\ e.warn = self_contained
                 /\ (c \notin {"uri", "path"} /\ self_contained) =>
                       /\ e.branch = "inline" /\ e.href = <<>> /\ ~e.warn
                 /\ (c \notin {"uri", "path"} /\ ~self_contained) =>
                       /\ e.branch = "asset" /\ ~e.warn
                       /\ [name |-> StoredName(k), mode |-> "wb"] \in assets'
                       /\ StoredName(k) = FullName(k)
       /\ MediaNow # {} =>
              /\ exc' = "none"
              /\ Cardinality(assets' \ assets) <= Cardinality(StoredNow)
      ]_vars

\* base64 data on which the probe raised was stored in binary mode
C11_Witness ==
    /\ handler = "pytest_runtest_logreport"
    /\ ~self_contained
    /\ exc = "none"
    /\ Len(report.extra) = 1
    /\ report.extra[1].format = "video" /\ report.extra[1].content = "b64_long"
    /\ Len(created) = 1
    /\ created[1].extras[1].branch = "asset"
    /\ \E f \in assets : f.mode = "wb"

\* how many times a step occurs in the trace
Times(step) == Cardinality({i \in 1..Len(trace) : trace[i] = step})

\* C12: on every path of sender that reaches the transport, smtp.quit is
\* called exactly once, whether connect, login and sendmail succeeded or
\* failed, and after the last of those steps that ran.
C12_SessionClosed ==
    Transport =>
        /\ Times("quit") = 1
        /\ \A i \in 1..Len(trace) :
              trace[i] \in {"SMTP_SSL", "login", "sendmail", "quit"} =>
                  \A j \in 1..Len(trace) : trace[j] = "quit" => i <= j

Steps == {"_generate_report", "_save_report", "sender", "default_subject",
          "output_email", "open_attachment", "SMTP_SSL", "login", "sendmail",
          "print_sent", "print_failed", "quit"}

\* C13: at session finish the report is generated from the aggregated state,
\* then written to disk, and only after that, and only if email is enabled,
\* handed to the sender; every step happens at most once, and the sender is
\* called once, with one attempt at the transport and none after a failure.
C13_FinishOrder ==
    handler = "pytest_sessionfinish" =>
        /\ trace[1] = "_generate_report"
        /\ \A step \in Steps : Times(step) <= 1
        /\ \A i \in 1..Len(trace) : trace[i] \in Steps
        /\ report_saved <=> InTrace("_save_report")
        /\ InTrace("_save_report") =>
              /\ trace[2] = "_save_report"
              /\ MailResult.count = passed + failed + xpassed + xfailed
              /\ MailResult.passed = passed /\ MailResult.failed = failed
              /\ MailResult.errors = errors /\ MailResult.skipped = skipped
              /\ MailResult.xfailed = xfailed /\ MailResult.xpassed = xpassed
        /\ InTrace("sender") <=> (session.is_email /\ InTrace("_save_report"))
        /\ InTrace("sender") => trace[3] = "sender"
        /\ \A i \in 1..Len(trace) :
              trace[i] = "print_failed" =>
                  \A j \in (i + 1)..Len(trace) : trace[j] = "quit"

\* a run with records whose sendmail failed: one attempt, then quit
C13_Witness ==
    /\ handler = "pytest_sessionfinish"
    /\ session.is_email /\ session.failure = "sendmail"
    /\ Len(results) = 2 /\ passed = 1 /\ failed = 1
    /\ exc = "none"
    /\ report_saved
    /\ Times("sender") = 1 /\ Times("SMTP_SSL") = 1 /\ Times("sendmail") = 1
    /\ trace[Len(trace) - 1] = "print_failed"

\* C14: a passed report whose phase is not "call" changes nothing in the
\* aggregator: every counter, results and test_logs stay as they are and no
\* asset is written for it.
C14_PassedOutsideCall ==
    [][(handler' = "pytest_runtest_logreport" /\ report'.outcome = "passed"
            /\ report'.when # "call") =>
         /\ exc' = "none"
         /\ UNCHANGED <<passed, failed, errors, skipped, xfailed, xpassed, rerun>>
         /\ UNCHANGED <<results, test_logs, created>>
         /\ UNCHANGED <<assets_dir, assets, report_saved>>
      ]_vars

\* a passed teardown report with a text attachment left the disk empty
C14_Witness ==
    /\ handler = "pytest_runtest_logreport"
    /\ ~self_contained
    /\ report.outcome = "passed" /\ report.when = "teardown"
    /\ Len(report.extra) = 1 /\ report.extra[1].format = "text"
    /\ created = <<>> /\ results = <<>> /\ test_logs = <<>>
    /\ assets = {} /\ ~assets_dir
    /\ passed = 0

\* the outcome kinds the total counts
Counted == {"Passed", "Failed", "XPassed", "XFailed"}

\* the report was generated
Generated == handler = "pytest_sessionfinish" /\ InTrace("_save_report")

\* C15 as claimed: the total copied to MailResult.count is passed + failed +
\* xpassed + xfailed, without errors, skipped and rerun, and is never greater
\* than the number of records.
C15_TotalWithinRecords ==
    Generated =>
        /\ MailResult.count = passed + failed + xpassed + xfailed
        /\ MailResult.count <= Len(results)

\* C15 amended: the total is passed + failed + xpassed + xfailed when the
\* report is generated: the number of reports classified as Passed, Failed,
\* XPassed or XFailed.  Error, Skipped and Rerun records are not in it, so
\* after reports of these kinds only it is 0 although results is not empty.  It
\* is never greater than the number of records plus the number of rows the
\* pytest_html_results_table_row hook emptied.
C15_TotalOfCounted ==
    LET emptied == Len(SelectSeq(created, LAMBDA x : ~x.row_table))
    IN  Generated =>
            /\ MailResult.count = passed + failed + xpassed + xfailed
            /\ MailResult.count
                  = Len(SelectSeq(created, LAMBDA x : x.outcome \in Counted))
            /\ (\A i \in 1..Len(created) : created[i].outcome \notin Counted)
                  => MailResult.count = 0
            /\ MailResult.count <= Len(results) + emptied

\* a total of 0 over an Error record and a Rerun record
C15_Witness ==
    /\ Generated
    /\ Len(results) = 2
    /\ results[1].outcome = "Error" /\ results[2].outcome = "Rerun"
    /\ Len(created) = 2
    /\ MailResult.count = 0

\* the attachments of a report that came from the fixture's list
FromFixture(seq) == SelectSeq(seq, LAMBDA e : e.name # 0)

\* what the running test has appended
Mine == SelectSeq(appended, LAMBDA e : e.name = item.n)

\* C16: only the "call" report of a test gets attachments of the fixture: the
\* ones this test appended, in order, before the report's own; a report of
\* another phase gets none; outside a fixture's lifetime pytestconfig.extras
\* is absent or empty, so no test gets an attachment of an earlier test.
C16_NoLeak ==
    /\ handler = "pytest_runtest_makereport" =>
          /\ FromFixture(report.extra)
                = IF report.when = "call" THEN Mine ELSE <<>>
          /\ \E plugin_extras \in PluginExtras :
                report.extra = FromFixture(report.extra) \o plugin_extras
    /\ ~item.active => getattr(extras) = <<>>

\* the second test does not use the fixture; the first one appended to it
C16_Witness ==
    /\ handler = "pytest_runtest_makereport"
    /\ report.when = "call"
    /\ item.n = 2 /\ ~item.uses
    /\ Len(SelectSeq(appended, LAMBDA e : e.name = 1)) = 2
    /\ extras = <<<<>>>>
    /\ Len(report.extra) = 1 /\ report.extra[1].name = 0

====
